---- MODULE Spec2Model ----
(***************************************************************************)
(* Model of the statdir collector (src/statdir.go): a Collector whose      *)
(* Collect loop is the single writer of the counters and of their files,   *)
(* client goroutines calling Inc / Set / Finish over unbuffered channels,  *)
(* waiters receiving from Ready, and readers calling ValueOf.              *)
(*                                                                         *)
(* Names and file contents are sequences of one-character strings, so that *)
(* strings.ToUpper and strconv.FormatInt are computed character by         *)
(* character as the library does.                                          *)
(*                                                                         *)
(* Counter values are int64 in the source; the values reached here stay    *)
(* within a few multiples of the operands, far from where int64 wraps, so   *)
(* they are plain integers.  A panic that no goroutine recovers ends the   *)
(* process: once crashed is set nothing takes a step any more.             *)
(***************************************************************************)
EXTENDS Integers, Sequences, FiniteSets, TLC

VARIABLES
    counters,    \* self.counters: registered name -> value
    startedAt,   \* self.startedAt (0 is the zero time)
    finishedAt,  \* self.finishedAt (0 is the zero time)
    ch,          \* self.ch: "nil", "open" or "closed"
    q,           \* self.q:  "nil", "open" or "closed"
    fC,          \* Collect's local table fC: key -> file name
    pc,          \* position of the goroutine running Collect
    u,           \* the request the loop is processing (local u, val)
    ret,         \* what Collect returned: "none", "err" or "nil"
    files,       \* the directory: file name -> content
    cl,          \* client goroutines: position and pending request
    calls,       \* number of Inc/Set/Finish calls each client has made
    gotReady,    \* waiters that have received from Ready
    crashed,     \* the process died of an unrecovered panic: "no" or its cause
    vres,        \* result of the latest ValueOf call
    hist         \* history of the run, read by the properties only

vars == <<counters, startedAt, finishedAt, ch, q, fC, pc, u, ret, files, cl,
          calls, gotReady, crashed, vres, hist>>

-----------------------------------------------------------------------------
(* Bounds and input sets *)

MaxCalls == 1        \* calls each client makes at most
MaxTime == 1         \* clock readings are 1..MaxTime
TicksPerSecond == 2  \* clock ticks per second; RFC3339 keeps whole seconds

Clients == {"p1", "p2"}
Waiters == {"w1", "w2"}

foo == <<"f", "o", "o">>
FOO == <<"F", "O", "O">>
Names == {foo, FOO}
Operands == {1, -10}


-----------------------------------------------------------------------------
(* Library functions *)

\* unicode.ToUpper on the letters used here; other characters map to themselves
UpperRune(c) ==
    CASE c = "f" -> "F"
      [] c = "o" -> "O"
      [] OTHER -> c

\* strings.ToUpper
ToUpper(s) == [i \in 1..Len(s) |-> UpperRune(s[i])]

DigitChar(d) ==
    CASE d = 0 -> "0" [] d = 1 -> "1" [] d = 2 -> "2" [] d = 3 -> "3"
      [] d = 4 -> "4" [] d = 5 -> "5" [] d = 6 -> "6" [] d = 7 -> "7"
      [] d = 8 -> "8" [] d = 9 -> "9"

RECURSIVE FormatUint(_)
FormatUint(n) ==
    IF n < 10 THEN <<DigitChar(n)>>
    ELSE FormatUint(n \div 10) \o <<DigitChar(n % 10)>>

\* strconv.FormatInt(v, 10)
FormatInt(v) == IF v < 0 THEN <<"-">> \o FormatUint(-v) ELSE FormatUint(v)

\* t.Format(time.RFC3339): the time to the second, fractions dropped
FormatRFC3339(t) == <<"T">> \o FormatUint(t \div TicksPerSecond) \o <<"Z">>

\* path.Join(self.path, name): one directory, so a file is known by its name
fS == <<"S", "T", "A", "R", "T", "E", "D">>
fF == <<"F", "I", "N", "I", "S", "H", "E", "D">>

-----------------------------------------------------------------------------
(* Reading the properties' side: parsing a file back *)

DigitVal(c) ==
    CASE c = "0" -> 0 [] c = "1" -> 1 [] c = "2" -> 2 [] c = "3" -> 3
      [] c = "4" -> 4 [] c = "5" -> 5 [] c = "6" -> 6 [] c = "7" -> 7
      [] c = "8" -> 8 [] c = "9" -> 9 [] OTHER -> -1

RECURSIVE ParseUint(_)
ParseUint(s) ==
    IF Len(s) = 0 THEN 0
    ELSE 10 * ParseUint(SubSeq(s, 1, Len(s) - 1)) + DigitVal(s[Len(s)])

IsDecimal(s) ==
    LET d == IF Len(s) > 0 /\ s[1] = "-" THEN Tail(s) ELSE s
    IN  Len(d) > 0 /\ \A i \in 1..Len(d) : DigitVal(d[i]) >= 0

ParseInt(s) == IF s[1] = "-" THEN -ParseUint(Tail(s)) ELSE ParseUint(s)

\* the file holds the decimal text of v
Holds(f, v) ==
    f \in DOMAIN files /\ IsDecimal(files[f]) /\ ParseInt(files[f]) = v

Exists(f) == f \in DOMAIN files

-----------------------------------------------------------------------------
(* The file system *)

\* outcomes of ioutil.WriteFile: done, the open failed (file untouched), or
\* the file was truncated and the write then failed (file left empty)
WriteOutcomes == {"ok", "open_failed", "write_failed"}

WriteFile(fs, f, data, outcome) ==
    IF outcome = "open_failed" THEN fs
    ELSE [x \in DOMAIN fs \cup {f} |->
            IF x = f THEN (IF outcome = "ok" THEN data ELSE <<>>) ELSE fs[x]]

\* the history kept of a write
Wrote(h, f, outcome) ==
    [h EXCEPT !.attempted = @ \cup {f},
              !.wfail = IF outcome = "ok" THEN @ ELSE @ \cup {f}]

-----------------------------------------------------------------------------
(* Construction and registration *)

NoOp == [kind |-> "-", name |-> <<>>, value |-> 0, val |-> 0]

\* history: requests of more than one form have been accepted
Mixed == [kind |-> "*", name |-> <<>>, value |-> 0, val |-> 0]

\* no ValueOf call has returned yet
NoResult == [name |-> <<>>, val |-> 0, err |-> "none"]

\* a client goroutine that is in no call
Idle == [pc |-> "idle", op |-> NoOp]

\* NewCollector
Init ==
    /\ counters = << >>
    /\ startedAt = 0
    /\ finishedAt = 0
    /\ ch = "nil"
    /\ q = "nil"
    /\ fC = << >>
    /\ pc = "new"
    /\ u = NoOp
    /\ ret = "none"
    /\ files = << >>
    /\ cl = [p \in Clients |-> Idle]
    /\ calls = [p \in Clients |-> 0]
    /\ gotReady = {}
    /\ crashed = "no"
    /\ vres = NoResult
    /\ hist = [expect |-> [n \in Names |-> 0],
               attempted |-> {},
               wfail |-> {},
               uniform |-> NoOp,
               last |-> <<>>,
               before |-> 0,
               early |-> FALSE,
               fin |-> FALSE,
               late |-> FALSE]

Running == crashed = "no"

\* AddCounter storing a fresh zero whether or not the name is there
AddCounter_Reset(n) ==
    /\ Running
    /\ pc \in {"new", "returned"}
    /\ counters' = [x \in DOMAIN counters \cup {n} |->
                      IF x = n THEN 0 ELSE counters[x]]
    /\ UNCHANGED <<startedAt, finishedAt, ch, q, fC, pc, u, ret, files, cl,
                   calls, gotReady, crashed, vres, hist>>

\* AddCounter: not thread safe, so called while no Collect loop runs
AddCounter(n) ==
    /\ Running
    /\ pc \in {"new", "returned"}
    /\ counters' = IF n \in DOMAIN counters THEN counters
                   ELSE [x \in DOMAIN counters \cup {n} |->
                           IF x = n THEN 0 ELSE counters[x]]
    /\ UNCHANGED <<startedAt, finishedAt, ch, q, fC, pc, u, ret, files, cl,
                   calls, gotReady, crashed, vres, hist>>

\* ValueOf without its check of the name: the zero value and no error
ValueOfResult_NoCheck(n) ==
    [name |-> n,
     val |-> IF n \in DOMAIN counters THEN counters[n] ELSE 0,
     err |-> "nil"]

\* ValueOf
ValueOfResult(n) ==
    IF n \in DOMAIN counters
    THEN [name |-> n, val |-> counters[n], err |-> "nil"]
    ELSE [name |-> n, val |-> 0, err |-> "doesn't exist"]

ValueOf(n) ==
    /\ Running
    /\ vres' = ValueOfResult(n)
    /\ UNCHANGED <<counters, startedAt, finishedAt, ch, q, fC, pc, u, ret,
                   files, cl, calls, gotReady, crashed, hist>>

-----------------------------------------------------------------------------
(* Clients: Inc, Set, Finish *)

\* a send that reads the channel field again once Collect has made the channel
Send_Late(p, c, where, op) ==
    /\ Running
    /\ cl[p].pc = "idle"
    /\ calls[p] < MaxCalls
    /\ calls' = [calls EXCEPT ![p] = @ + 1]
    /\ hist' = [hist EXCEPT
                  !.early = @ \/ gotReady = {},
                  !.fin = @ \/ op.kind = "q",
                  !.late = @ \/ hist.fin
                             \/ (op.kind = "q" /\ \E o \in Clients : cl[o].pc # "idle")]
    /\ IF c = "closed"
       THEN /\ crashed' = "send on closed channel"
            /\ cl' = cl
       ELSE /\ crashed' = crashed
            /\ cl' = [cl EXCEPT ![p] = [pc |-> where, op |-> op]]
    /\ UNCHANGED <<counters, startedAt, finishedAt, ch, q, fC, pc, u, ret,
                   files, gotReady, vres>>

\* a send on channel c of a goroutine at position "idle": a nil channel blocks
\* for ever, a closed one panics, an open one waits for the receiver
Send(p, c, where, op) ==
    /\ Running
    /\ cl[p].pc = "idle"
    /\ calls[p] < MaxCalls
    /\ calls' = [calls EXCEPT ![p] = @ + 1]
    /\ hist' = [hist EXCEPT
                  !.early = @ \/ gotReady = {},
                  !.fin = @ \/ op.kind = "q",
                  !.late = @ \/ hist.fin
                             \/ (op.kind = "q" /\ \E o \in Clients : cl[o].pc # "idle")]
    /\ IF c = "closed"
       THEN /\ crashed' = "send on closed channel"
            /\ cl' = cl
       ELSE /\ crashed' = crashed
            /\ cl' = [cl EXCEPT ![p] =
                        [pc |-> IF c = "nil" THEN "nilblock" ELSE where,
                         op |-> IF c = "nil" THEN NoOp ELSE op]]
    /\ UNCHANGED <<counters, startedAt, finishedAt, ch, q, fC, pc, u, ret,
                   files, gotReady, vres>>

Inc(p, n, v) ==
    Send(p, ch, "sendCh", [kind |-> "i", name |-> n, value |-> v, val |-> 0])

Set(p, n, v) ==
    Send(p, ch, "sendCh", [kind |-> "s", name |-> n, value |-> v, val |-> 0])

Finish(p) ==
    Send(p, q, "sendQ", [kind |-> "q", name |-> <<>>, value |-> 0, val |-> 0])

\* a sender waiting on a channel that gets closed panics
SendOnClosed(p) ==
    /\ Running
    /\ \/ cl[p].pc = "sendCh" /\ ch = "closed"
       \/ cl[p].pc = "sendQ" /\ q = "closed"
    /\ crashed' = "send on closed channel"
    /\ UNCHANGED <<counters, startedAt, finishedAt, ch, q, fC, pc, u, ret,
                   files, cl, calls, gotReady, vres, hist>>

\* a Ready that is closed instead of sent on: every waiter receives
ReceiveReady_Closed(w) ==
    /\ Running
    /\ pc \in {"ready", "select"}
    /\ gotReady' = gotReady \cup {w}
    /\ pc' = "select"
    /\ UNCHANGED <<counters, startedAt, finishedAt, ch, q, fC, u, ret, files,
                   cl, calls, crashed, vres, hist>>

\* <-c.Ready
ReceiveReady(w) ==
    /\ Running
    /\ pc = "ready"
    /\ gotReady' = gotReady \cup {w}
    /\ pc' = "select"
    /\ UNCHANGED <<counters, startedAt, finishedAt, ch, q, fC, u, ret, files,
                   cl, calls, crashed, vres, hist>>

-----------------------------------------------------------------------------
(* Collect *)

\* the table fC built from the registered names: upper-cased key -> file
FileTable(cs) == [k \in {ToUpper(n) : n \in DOMAIN cs} |-> k]

\* Collect without the return on a MkdirAll error
CollectBegin_NoReturn(mkdirOk) ==
    /\ Running
    /\ pc = "new"
    /\ fC' = FileTable(counters)
    /\ pc' = "start"
    /\ ret' = IF mkdirOk THEN ret ELSE "err"
    /\ UNCHANGED <<counters, startedAt, finishedAt, ch, q, u, files, cl, calls,
                   gotReady, crashed, vres, hist>>

\* os.MkdirAll, then the file names
CollectBegin(mkdirOk) ==
    /\ Running
    /\ pc = "new"
    /\ IF mkdirOk
       THEN /\ fC' = FileTable(counters)
            /\ pc' = "start"
            /\ ret' = ret
       ELSE /\ fC' = fC
            /\ pc' = "returned"
            /\ ret' = "err"
    /\ UNCHANGED <<counters, startedAt, finishedAt, ch, q, u, files, cl, calls,
                   gotReady, crashed, vres, hist>>

\* Collect without the write of the STARTED file
CollectStart_NoWrite(t, outcome) ==
    /\ Running
    /\ pc = "start"
    /\ startedAt' = t
    /\ pc' = "makech"
    /\ UNCHANGED <<counters, finishedAt, ch, q, fC, u, ret, files, cl, calls,
                   gotReady, crashed, vres, hist>>

\* Collect with the finish function called on the spot instead of deferred
CollectStart_FinishNow(t, outcome) ==
    /\ Running
    /\ pc = "start"
    /\ startedAt' = t
    /\ finishedAt' = t
    /\ files' = WriteFile(WriteFile(files, fF, FormatRFC3339(t), outcome),
                          fS, FormatRFC3339(t), outcome)
    /\ hist' = Wrote(Wrote(hist, fF, outcome), fS, outcome)
    /\ pc' = "makech"
    /\ UNCHANGED <<counters, ch, q, fC, u, ret, cl, calls, gotReady, crashed,
                   vres>>

\* startedAt and the STARTED file
CollectStart(t, outcome) ==
    /\ Running
    /\ pc = "start"
    /\ startedAt' = t
    /\ files' = WriteFile(files, fS, FormatRFC3339(t), outcome)
    /\ hist' = Wrote(hist, fS, outcome)
    /\ pc' = "makech"
    /\ UNCHANGED <<counters, finishedAt, ch, q, fC, u, ret, cl, calls,
                   gotReady, crashed, vres>>

CollectMakeCh ==
    /\ Running
    /\ pc = "makech"
    /\ ch' = "open"
    /\ pc' = "makeq"
    /\ UNCHANGED <<counters, startedAt, finishedAt, q, fC, u, ret, files, cl,
                   calls, gotReady, crashed, vres, hist>>

CollectMakeQ ==
    /\ Running
    /\ pc = "makeq"
    /\ q' = "open"
    /\ pc' = "ready"
    /\ UNCHANGED <<counters, startedAt, finishedAt, ch, fC, u, ret, files, cl,
                   calls, gotReady, crashed, vres, hist>>

\* what the documentation says a request does to a value
ApplyOp(op, v) == IF op.kind = "i" THEN v + op.value ELSE op.value

\* case u := <-self.ch, and the lookup of u.name in fC
LoopAccept(p) ==
    /\ Running
    /\ pc = "select"
    /\ cl[p].pc = "sendCh"
    /\ cl' = [cl EXCEPT ![p] = Idle]
    /\ hist' = [hist EXCEPT
                  !.uniform = IF @ \in {NoOp, cl[p].op} THEN cl[p].op ELSE Mixed,
                  !.last = cl[p].op.name,
                  !.expect = [n \in Names |->
                                IF n = cl[p].op.name /\ n \in DOMAIN counters
                                THEN ApplyOp(cl[p].op, @[n]) ELSE @[n]]]
    /\ IF cl[p].op.name \in DOMAIN fC
       THEN pc' = "apply" /\ u' = cl[p].op
       ELSE pc' = "select" /\ u' = NoOp
    /\ UNCHANGED <<counters, startedAt, finishedAt, ch, q, fC, ret, files,
                   calls, gotReady, crashed, vres>>

\* atomic.AddInt64 / atomic.StoreInt64 on self.counters[u.name]; a name that is
\* no key of the map gives a nil pointer, and the loop panics
LoopApply ==
    /\ Running
    /\ pc = "apply"
    /\ IF u.name \in DOMAIN counters
       THEN LET val == IF u.kind = "i" THEN counters[u.name] + u.value
                       ELSE u.value
            IN  /\ counters' = [counters EXCEPT ![u.name] = val]
                /\ u' = [u EXCEPT !.val = val]
                /\ pc' = "write"
                /\ ret' = ret
       ELSE /\ counters' = counters
            /\ u' = u
            /\ pc' = "closeq"
            /\ ret' = "panic"
    /\ hist' = [hist EXCEPT !.before =
                  IF u.name \in DOMAIN counters THEN counters[u.name] ELSE @]
    /\ UNCHANGED <<startedAt, finishedAt, ch, q, fC, files, cl, calls,
                   gotReady, crashed, vres>>

\* the loop writing the operand of the request instead of the new value
LoopWrite_Operand(outcome) ==
    /\ Running
    /\ pc = "write"
    /\ files' = WriteFile(files, fC[u.name], FormatInt(u.value), outcome)
    /\ hist' = [Wrote(hist, fC[u.name], outcome) EXCEPT !.before = 0]
    /\ pc' = "select"
    /\ u' = NoOp
    /\ UNCHANGED <<counters, startedAt, finishedAt, ch, q, fC, ret, cl, calls,
                   gotReady, crashed, vres>>

\* the loop returning the error of a failed write
LoopWrite_Return(outcome) ==
    /\ Running
    /\ pc = "write"
    /\ files' = WriteFile(files, fC[u.name], FormatInt(u.val), outcome)
    /\ hist' = [Wrote(hist, fC[u.name], outcome) EXCEPT !.before = 0]
    /\ IF outcome = "ok"
       THEN pc' = "select" /\ ret' = ret
       ELSE pc' = "closeq" /\ ret' = "err"
    /\ u' = NoOp
    /\ UNCHANGED <<counters, startedAt, finishedAt, ch, q, fC, cl, calls,
                   gotReady, crashed, vres>>

\* ioutil.WriteFile(fname, FormatInt(val))
LoopWrite(outcome) ==
    /\ Running
    /\ pc = "write"
    /\ files' = WriteFile(files, fC[u.name], FormatInt(u.val), outcome)
    /\ hist' = [Wrote(hist, fC[u.name], outcome) EXCEPT !.before = 0]
    /\ pc' = "select"
    /\ u' = NoOp
    /\ UNCHANGED <<counters, startedAt, finishedAt, ch, q, fC, ret, cl, calls,
                   gotReady, crashed, vres>>

\* the shutdown case with a break, which leaves the select and not the loop
LoopQuit_Break(p) ==
    /\ Running
    /\ pc = "select"
    /\ cl[p].pc = "sendQ"
    /\ cl' = [cl EXCEPT ![p] = Idle]
    /\ ret' = "nil"
    /\ pc' = "select"
    /\ UNCHANGED <<counters, startedAt, finishedAt, ch, q, fC, u, files, calls,
                   gotReady, crashed, vres, hist>>

\* case <-self.q: return nil
LoopQuit(p) ==
    /\ Running
    /\ pc = "select"
    /\ cl[p].pc = "sendQ"
    /\ cl' = [cl EXCEPT ![p] = Idle]
    /\ ret' = "nil"
    /\ pc' = "closeq"
    /\ UNCHANGED <<counters, startedAt, finishedAt, ch, q, fC, u, files, calls,
                   gotReady, crashed, vres, hist>>

\* the deferred calls, last registered first
DeferCloseQ ==
    /\ Running
    /\ pc = "closeq"
    /\ q' = "closed"
    /\ pc' = "closech"
    /\ UNCHANGED <<counters, startedAt, finishedAt, ch, fC, u, ret, files, cl,
                   calls, gotReady, crashed, vres, hist>>

DeferCloseCh ==
    /\ Running
    /\ pc = "closech"
    /\ ch' = "closed"
    /\ pc' = "finish"
    /\ UNCHANGED <<counters, startedAt, finishedAt, q, fC, u, ret, files, cl,
                   calls, gotReady, crashed, vres, hist>>

\* finishedAt and the FINISHED file; a panicking loop then ends the process
DeferFinish(t, outcome) ==
    /\ Running
    /\ pc = "finish"
    /\ t >= startedAt
    /\ finishedAt' = t
    /\ files' = WriteFile(files, fF, FormatRFC3339(t), outcome)
    /\ hist' = Wrote(hist, fF, outcome)
    /\ IF ret = "panic"
       THEN pc' = "dead" /\ crashed' = "nil pointer dereference"
       ELSE pc' = "returned" /\ crashed' = crashed
    /\ UNCHANGED <<counters, startedAt, ch, q, fC, u, ret, cl, calls,
                   gotReady, vres>>

-----------------------------------------------------------------------------

Times == 1..MaxTime

\* the calls of the clients and the receive of a waiter
ClientStep ==
    \/ \E n \in Names : AddCounter(n)
    \/ \E p \in Clients, n \in Names, v \in Operands : Inc(p, n, v)
    \/ \E p \in Clients, n \in Names, v \in Operands : Set(p, n, v)
    \/ \E p \in Clients : Finish(p)
    \/ \E p \in Clients : SendOnClosed(p)
    \/ \E w \in Waiters : ReceiveReady(w)

\* the steps of Collect, its writes ending in one of the outcomes O
CollectStep(O) ==
    \/ \E ok \in BOOLEAN : CollectBegin(ok)
    \/ \E t \in Times, o \in O : CollectStart(t, o)
    \/ CollectMakeCh
    \/ CollectMakeQ
    \/ \E p \in Clients : LoopAccept(p)
    \/ LoopApply
    \/ \E o \in O : LoopWrite(o)
    \/ \E p \in Clients : LoopQuit(p)
    \/ DeferCloseQ
    \/ DeferCloseCh
    \/ \E t \in Times, o \in O : DeferFinish(t, o)

Next == ClientStep \/ CollectStep(WriteOutcomes)

\* the collector and its clients
Spec == Init /\ [][Next]_vars

\* the scheduler runs every goroutine that can take a step, and a select
\* whose shutdown case is ready again and again takes it in the end (it
\* chooses among its ready cases at random); clients need not call anything
Fairness ==
    /\ WF_vars(CollectStep(WriteOutcomes))
    /\ WF_vars(\E p \in Clients : SendOnClosed(p))
    /\ WF_vars(\E w \in Waiters : ReceiveReady(w))
    /\ \A p \in Clients : SF_vars(LoopQuit(p))

SpecFair == Spec /\ Fairness

\* the same with a reader calling ValueOf at any moment; ValueOf reads no file,
\* so the reader is checked beside writes that succeed
NextValueOf ==
    \/ ClientStep
    \/ CollectStep({"ok"})
    \/ \E n \in Names : ValueOf(n)

SpecValueOf == Init /\ [][NextValueOf]_vars

-----------------------------------------------------------------------------
(* Vocabulary of the properties *)

Registered == DOMAIN counters

\* the file of counter c
FileOf(c) == ToUpper(c)

\* the loop waits in its select; no request is in processing
LoopIdle == pc = "select"

\* the step in which the loop takes the request of client p
Accepts(p) == pc = "select" /\ cl[p].pc = "sendCh" /\ cl'[p].pc = "idle"

\* every client has made all its calls and every call has returned
AllReturned == \A p \in Clients : calls[p] = MaxCalls /\ cl[p].pc = "idle"

IncOne(c) == [kind |-> "i", name |-> c, value |-> 1, val |-> 0]

\* the counter files, as opposed to the two markers
CounterFiles(fs) == [f \in DOMAIN fs \ {fS, fF} |-> fs[f]]

-----------------------------------------------------------------------------
(* C1 *)

\* C1: when, Ready having been received, the clients have each called Inc(c, 1) MaxCalls times on one
\* registered counter c and nothing else, all calls have returned and the loop
\* is idle, then c is N*M in memory and (no write having failed) in its file.
C1_ConcurrentIncrements ==
    \A c \in Registered :
        (/\ LoopIdle /\ AllReturned /\ ~hist.early
         /\ hist.uniform = IncOne(c) /\ hist.wfail = {})
            => /\ counters[c] = Cardinality(Clients) * MaxCalls
               /\ Holds(FileOf(c), Cardinality(Clients) * MaxCalls)

-----------------------------------------------------------------------------
(* C2 *)

\* C2: whenever the loop is idle, every registered counter has the value got by
\* applying the accepted requests in order from 0, and (no write having
\* failed) the file of the counter of the request processed last holds the
\* decimal text of that value.
C2_AppliedInAcceptanceOrder ==
    (LoopIdle /\ hist.wfail = {}) =>
        \A c \in Registered :
            /\ counters[c] = hist.expect[c]
            /\ c = hist.last => Holds(FileOf(c), hist.expect[c])

-----------------------------------------------------------------------------
(* C3 *)

\* C3: a request the loop accepts for a name that is not registered is dropped:
\* no counter and no file changes, nothing panics, and the loop is back in its
\* select for the next request.
C3_UnregisteredDropped ==
    [][\A p \in Clients :
          (Accepts(p) /\ cl[p].op.name \notin Registered)
              => /\ counters' = counters
                 /\ files' = files
                 /\ pc' = "select"]_vars

-----------------------------------------------------------------------------
(* C4 *)

\* C4: a request the loop accepts for a registered name n, of any letter case,
\* goes on to be applied to n and written to the upper-cased file of n.
C4_RegisteredApplied ==
    [][\A p \in Clients :
          (Accepts(p) /\ cl[p].op.name \in Registered)
              => /\ pc' = "apply"
                 /\ u'.name = cl[p].op.name
                 /\ fC[u'.name] = ToUpper(cl[p].op.name)]_vars

-----------------------------------------------------------------------------
(* C5 *)

\* another registered name has the same file
Aliased(c) == \E d \in Registered \ {c} : FileOf(d) = FileOf(c)

\* the file of c holds the value of c, or, while the loop is between applying
\* a request to c and writing, the value c had just before that request
DiskFollows(c) ==
    IF pc = "write" /\ u.name = c
    THEN Holds(FileOf(c), hist.before)
    ELSE Holds(FileOf(c), counters[c])

\* C5 as stated: with no write failure, the file of every registered counter
\* whose file has been written holds the counter's value, or the value from
\* just before the one request in processing.
C5_DiskFollowsMemory ==
    \A c \in Registered :
        (FileOf(c) \in hist.attempted /\ hist.wfail = {}) => DiskFollows(c)

\* C5 amended: the same for every registered counter that shares its file with
\* no other registered name.
C5_DiskFollowsMemoryUnaliased ==
    \A c \in Registered :
        (FileOf(c) \in hist.attempted /\ hist.wfail = {} /\ ~Aliased(c))
            => DiskFollows(c)

\* memory leads the disk by one request on a counter written before
C5_Witness ==
    /\ pc = "write"
    /\ u.name \in Registered
    /\ ~Aliased(u.name)
    /\ FileOf(u.name) \in hist.attempted
    /\ hist.wfail = {}
    /\ counters[u.name] # hist.before

-----------------------------------------------------------------------------
(* C6 *)

ReadyOrAccepted == gotReady # {} \/ hist.last # <<>>

-----------------------------------------------------------------------------
(* C7 *)

\* the documented workflow at its end: every call was made after Ready was
\* received, one client waits in Finish, no Finish was called before, and
\* the other clients have made all their calls and are in none
FinishCalled ==
    /\ ~hist.early
    /\ ret = "none"
    /\ \E p \in Clients :
          /\ cl[p].pc = "sendQ"
          /\ \A o \in Clients \ {p} : cl[o].pc = "idle" /\ calls[o] = MaxCalls

\* Collect has returned nil and the finish marker is there
Finished ==
    /\ pc = "returned"
    /\ ret = "nil"
    /\ finishedAt # 0
    /\ \A p \in Clients : cl[p].pc # "sendQ"
    /\ fF \notin hist.wfail => Exists(fF)

\* C7: a Finish called after readiness returns in the end, Collect returns
\* nil, and from then on FINISHED is there and the finish time is set (stated
\* for the documented workflow, and for a FINISHED write that does not fail).
C7_FinishTerminates == [](FinishCalled => <>[]Finished)

-----------------------------------------------------------------------------
(* C8 *)

\* C8: once the loop has taken the shutdown signal, no counter value and no
\* counter file changes and no request is accepted; nor is any accepted once
\* the request channel is closed.
C8_NothingAfterShutdown ==
    [][/\ ret = "nil" =>
            /\ \A c \in Registered :
                  c \in DOMAIN counters' /\ counters'[c] = counters[c]
            /\ CounterFiles(files') = CounterFiles(files)
            /\ \A p \in Clients : ~Accepts(p)
       /\ ch = "closed" => \A p \in Clients : ~Accepts(p)]_vars

\* the shutdown was taken while a request was waiting to be sent
C8_Witness ==
    /\ ret = "nil"
    /\ \E p \in Clients : cl[p].pc = "sendCh"

-----------------------------------------------------------------------------
(* C9 *)

\* C9: when the directory cannot be made, Collect has returned the error and
\* nothing else has happened: no readiness, no channels, zero times, no file
\* written, no counter changed.
C9_MkdirFailure ==
    ret = "err" =>
        /\ pc = "returned"
        /\ gotReady = {}
        /\ ch = "nil"
        /\ q = "nil"
        /\ startedAt = 0
        /\ finishedAt = 0
        /\ DOMAIN files = {}
        /\ hist.attempted = {}
        /\ hist.last = <<>>
        /\ \A c \in Registered : counters[c] = 0

\* Collect failed, with counters registered and a client calling Inc or Set
C9_Witness ==
    /\ ret = "err"
    /\ Registered # {}
    /\ \E p \in Clients : cl[p].pc = "nilblock"

-----------------------------------------------------------------------------
(* C10 *)

\* C10: a ValueOf call returns the value of a registered name with no error
\* (0 before any update), the "doesn't exist" error for any other name, and
\* changes nothing else; and it can return in every state of the loop.
C10_ValueOf ==
    /\ [](Running => \A n \in Names : ENABLED ValueOf(n))
    /\ [][vres' # vres =>
            /\ vres'.name \in Names
            /\ vres'.name \in Registered =>
                  (vres'.err = "nil" /\ vres'.val = counters[vres'.name])
            /\ vres'.name \notin Registered =>
                  (vres'.err = "doesn't exist" /\ vres'.val = 0)
            /\ UNCHANGED <<counters, startedAt, finishedAt, ch, q, fC, pc, u,
                           ret, files, cl, calls, gotReady, crashed, hist>>]_vars

\* a value read while the loop is between applying a request and writing it
C10_Witness ==
    /\ pc = "write"
    /\ vres.err = "nil"
    /\ vres.name = u.name
    /\ vres.val = u.val
    /\ vres.val # 0

-----------------------------------------------------------------------------
(* C11 *)

\* C11: an AddCounter(n) call leaves n registered; a step outside the loop's
\* update keeps every registered counter at its value, zero or not, adds at
\* most one name, adds it with value 0, and changes nothing but the map.
C11_AddCounterIdempotent ==
    [][/\ \A n \in Names : AddCounter(n) => n \in DOMAIN counters'
       /\ pc # "apply" =>
            /\ \A c \in Registered :
                  c \in DOMAIN counters' /\ counters'[c] = counters[c]
            /\ \A c \in DOMAIN counters' \ Registered : counters'[c] = 0
            /\ Cardinality(DOMAIN counters' \ Registered) <= 1
            /\ DOMAIN counters' # Registered =>
                  UNCHANGED <<startedAt, finishedAt, ch, q, fC, pc, u, ret,
                              files, cl, calls, gotReady, crashed, vres,
                              hist>>]_vars

\* AddCounter can be called again on a counter that is no longer zero, beside
\* a name still absent
C11_Witness ==
    /\ Running
    /\ pc = "returned"
    /\ \E c \in Registered : counters[c] # 0
    /\ Names \ Registered # {}

-----------------------------------------------------------------------------
(* C12 *)

\* the steps of Collect that call ioutil.WriteFile
WritesStarted == pc = "start" /\ pc' # "start"

WritesCounter == pc = "write" /\ pc' # "write"

WritesFinished == pc = "finish" /\ pc' # "finish"

\* the files a step touches or tries to write
Touched ==
    {f \in DOMAIN files \cup DOMAIN files' :
        f \notin DOMAIN files \/ f \notin DOMAIN files' \/ files'[f] # files[f]}
      \cup (hist'.attempted \ hist.attempted)
      \cup (hist'.wfail \ hist.wfail)

\* C12: STARTED is written by one step only, before which no marker was
\* written; FINISHED by one step only, after the STARTED write and not after
\* an earlier FINISHED write; a counter file only between the two; and no
\* other step touches a file.
C12_MarkersOnceAndInOrder ==
    [][/\ WritesStarted =>
            /\ hist.attempted = {}
            /\ Touched \subseteq {fS}
            /\ fS \in hist'.attempted
       /\ WritesFinished =>
            /\ fS \in hist.attempted /\ fF \notin hist.attempted
            /\ Touched \subseteq {fF}
            /\ fF \in hist'.attempted
       /\ WritesCounter =>
            /\ fS \in hist.attempted /\ fF \notin hist.attempted
            /\ Touched \cap {fS, fF} = {}
            /\ Cardinality(Touched) <= 1
       /\ ~(WritesStarted \/ WritesFinished \/ WritesCounter) =>
            Touched = {}]_vars

\* a run that wrote its start marker, a counter file and its finish marker
C12_Witness ==
    /\ pc = "returned"
    /\ {fS, fF} \subseteq hist.attempted
    /\ hist.attempted \ {fS, fF} # {}
    /\ Exists(fS) /\ Exists(fF)

-----------------------------------------------------------------------------
(* C13 *)

\* the step in which the call of client p returns: its send has been received
Taken(p) == cl[p].pc \in {"sendCh", "sendQ"} /\ cl'[p].pc = "idle"

\* the request accepted last, if for a registered name, has been applied and
\* the write of its file made
LastDone ==
    hist.last \in Registered =>
        /\ counters[hist.last] = hist.expect[hist.last]
        /\ FileOf(hist.last) \in hist.attempted
        /\ hist.wfail = {} => Holds(FileOf(hist.last), hist.expect[hist.last])

\* C13: a call returns only in a step of the loop at its select, with no
\* request in processing and the request accepted before it applied and its
\* write made; one call returns per step, and an Inc or Set that returns is
\* the request the loop has just accepted.
C13_OneAtATime ==
    [][\A p \in Clients :
          Taken(p) =>
             /\ pc = "select" /\ u = NoOp
             /\ LastDone
             /\ \A o \in Clients \ {p} : cl'[o] = cl[o]
             /\ cl[p].pc = "sendCh" =>
                   /\ hist'.last = cl[p].op.name
                   /\ pc' \in {"select", "apply"}
                   /\ pc' = "apply" => u' = cl[p].op]_vars

-----------------------------------------------------------------------------
(* C14 *)

\* after the step, file f does not hold the text data
NotWritten(f, data) == ~(f \in DOMAIN files' /\ files'[f] = data)

-----------------------------------------------------------------------------
(* C15 *)

\* Collect is past its send on ready
PastReady == pc \notin {"new", "start", "makech", "makeq", "ready"} /\ ret # "err"

\* C15: at most one waiter ever receives from Ready, and exactly one has once
\* Collect is past its send; Collect leaves that send only in the step in
\* which the one waiter receives, and the loop takes no request and no
\* shutdown signal before.
C15_ReadyOnce ==
    /\ [](/\ Cardinality(gotReady) <= 1
          /\ PastReady => Cardinality(gotReady) = 1
          /\ gotReady = {} => (hist.last = <<>> /\ ret \in {"none", "err"}))
    /\ [][/\ (pc = "ready" /\ pc' # "ready") =>
                (gotReady = {} /\ Cardinality(gotReady') = 1 /\ pc' = "select")
          /\ gotReady' # gotReady => pc = "ready"
          /\ \A p \in Clients : Taken(p) => gotReady # {}]_vars

\* one waiter has received, the loop has taken a request and the shutdown
\* signal, and no second waiter has received anything
C15_Witness ==
    /\ Cardinality(gotReady) = 1
    /\ hist.last # <<>>
    /\ ret = "nil"
    /\ pc = "returned"

-----------------------------------------------------------------------------
(* C16 *)

\* the for loop of Collect has been left
LoopExited == pc \in {"closeq", "closech", "finish", "returned", "dead"}

\* the step in which client p makes a call
Calls(p) == calls'[p] # calls[p]

\* C16: a call made while the request channel is nil changes no counter and
\* no file and blocks, and a blocked call stays as it is whatever Collect does
\* later; a call made once the channel is closed changes nothing and crashes;
\* a call made after the loop was left, or waiting when it is left, never
\* returns; and the loop takes a request only from an open channel, in its
\* select.
C16_NilOrClosedNeverAccepted ==
    [][\A p \in Clients :
          /\ (Calls(p) /\ ch = "nil") =>
                /\ cl'[p].pc = "nilblock"
                /\ counters' = counters /\ files' = files
          /\ cl[p].pc = "nilblock" => cl'[p] = cl[p]
          /\ (Calls(p) /\ ch = "closed") =>
                /\ crashed' = "send on closed channel"
                /\ cl' = cl
                /\ counters' = counters /\ files' = files
          /\ (Calls(p) /\ LoopExited) =>
                /\ counters' = counters /\ files' = files
                /\ cl'[p].pc # "idle" \/ crashed' = "send on closed channel"
          /\ (LoopExited /\ cl[p].pc # "idle") => cl'[p] = cl[p]
          /\ (Taken(p) /\ cl[p].pc = "sendCh") =>
                (ch = "open" /\ pc = "select")]_vars

\* a call made before the channel existed still blocks while the loop, started
\* later, is processing the request of another client
C16_Witness ==
    /\ \E p \in Clients : cl[p].pc = "nilblock"
    /\ ch = "open"
    /\ pc = "write"
    /\ counters[u.name] # 0

-----------------------------------------------------------------------------
(* C17 *)

\* C17: with two registered names that differ in letter case only, whenever
\* the loop is idle each of the two counters has the value its own accepted
\* requests give it, and (no write having failed) the one file they share
\* holds the value of the counter whose request was accepted last.
C17_AliasedShareFile ==
    \A c \in Registered :
        (Aliased(c) /\ LoopIdle /\ hist.last = c) =>
            /\ \A d \in Registered :
                  FileOf(d) = FileOf(c) => counters[d] = hist.expect[d]
            /\ hist.wfail = {} => Holds(FileOf(c), hist.expect[c])

-----------------------------------------------------------------------------
(* C18 *)

\* C18: while Collect runs, the keys of the file-name table are the
\* registered names; a request the loop has not discarded is for a key of the
\* counter map, and the loop never panics on a missing counter.
C18_TableKeysAreRegistered ==
    /\ pc \notin {"new", "returned"} => DOMAIN fC = Registered
    /\ pc \in {"apply", "write"} => u.name \in Registered
    /\ ret # "panic"

-----------------------------------------------------------------------------
(* C19 *)

\* the documented workflow so far: every call was made after Ready was
\* received, no call was made once Finish had been called, and Finish was
\* called while no other call was pending
Documented == ~hist.early /\ ~hist.late

\* C19: in the documented workflow nothing is sent on a closed or nil
\* channel; and a send on a closed channel happens only once the loop has been
\* left, to a call that is waiting or being made then.
C19_CrashFreeShutdown ==
    /\ [](Documented =>
            /\ crashed # "send on closed channel"
            /\ \A p \in Clients : cl[p].pc # "nilblock")
    /\ [][(crashed = "no" /\ crashed' = "send on closed channel") =>
            /\ LoopExited
            /\ \E p \in Clients : Calls(p) \/ cl[p].pc \in {"sendCh", "sendQ"}]_vars

\* in the documented workflow no call waits for ever
C19_NoProducerBlocked ==
    \A p \in Clients :
        (Documented /\ cl[p].pc # "idle") ~> (cl[p].pc = "idle" \/ ~Documented)

====
